---- MODULE Spec2Model ----
(***************************************************************************)
(* A state-machine model of videoparquet: the batch encoder                *)
(* parquet2video, the decoder video2parquet, the ffmpeg wrappers           *)
(* _ffmpeg_write / _ffmpeg_read and the quantizer normalize / denormalize. *)
(*                                                                         *)
(* Arrays are records [shape, dtype, vals]: shape is <<T,H,W,C>> and vals  *)
(* the row-major (C-order) flattening, as numpy's tobytes/reshape see it.  *)
(* Sample values are integers; the quantizer's real arithmetic is exact    *)
(* rational arithmetic carried out on integers.                            *)
(***************************************************************************)
EXTENDS Integers, Sequences, FiniteSets, TLC

VARIABLES
    container,   \* output directory: [name -> [ext -> container file]]
    manifest,    \* output directory: [name -> manifest file <name>.json]
    origin,      \* per name: the job that wrote the manifest now on disk
    recon,       \* output directory: [name -> reconstructed_<name>.parquet]
    dataset,     \* output directory: data.parquet has been saved
    batch,       \* the parquet2video call: status, policy, loop position, results
    dec,         \* the last video2parquet call and how it ended
    call         \* the last direct call of a wrapper or quantizer function

vars == <<container, manifest, origin, recon, dataset, batch, dec, call>>

-----------------------------------------------------------------------------
(* Bounds of the model.                                                    *)

MaxT == 2
MaxH == 1
MaxW == 2
MaxPix == 2
MaxVal == 3

-----------------------------------------------------------------------------
(* Program constants and input domains.                                    *)

Names == {"arr1", "arr2"}
Exts == {".mp4", ".mkv"}
Policies == {"raise", "skip"}
Codecs == {"ffv1", "libx264"}
BitDepths == {8, 16}
NComponents == {0, 2}
ByteVals == {0, 255}
None == <<>>
NoFile == [exists |-> FALSE]
NoJob == [exists |-> FALSE]
NoCall == [op |-> "none"]

Min(a, b) == IF a <= b THEN a ELSE b
Abs(a) == IF a < 0 THEN 0 - a ELSE a

Pow2(b) == IF b = 8 THEN 256 ELSE IF b = 16 THEN 65536 ELSE 2 ^ b

Prod(shape) == shape[1] * shape[2] * shape[3] * shape[4]
NPix(shape) == shape[1] * shape[2] * shape[3]

-----------------------------------------------------------------------------
(* utils.py                                                                *)

\* normalize scaling by 2^bits instead of 2^bits - 1, the cast wrapping
\* around: the full-scale sample comes out as 0.
NormalizeSampleWrapping(x, mn, mx, bits, nanv) ==
    LET d == mx - mn
        n == x - mn
    IN  IF d = 0
        THEN nanv
        ELSE IF d > 0
        THEN IF n <= 0 THEN 0 ELSE IF n >= d THEN 0 ELSE (n * Pow2(bits)) \div d
        ELSE IF n >= 0 THEN 0 ELSE IF n <= d THEN 0 ELSE ((0 - n) * Pow2(bits)) \div (0 - d)

\* One sample of normalize: (x - min) / (max - min), clipped to [0,1], times
\* 2^bits - 1, cast to an unsigned integer (astype truncates).  A zero-width
\* range divides by zero: +-inf clips to 1 or 0, and 0/0 is NaN, whose cast
\* to an integer is undefined: nanv is the value the build produces for it.
NormalizeSample(x, mn, mx, bits, nanv) ==
    LET N == Pow2(bits) - 1
        d == mx - mn
        n == x - mn
    IN  IF d = 0
        THEN IF n = 0 THEN nanv ELSE IF n > 0 THEN N ELSE 0
        ELSE IF d > 0
        THEN IF n <= 0 THEN 0 ELSE IF n >= d THEN N ELSE (n * N) \div d
        ELSE IF n >= 0 THEN 0 ELSE IF n <= d THEN N ELSE ((0 - n) * N) \div (0 - d)

normalize(array, minmax, bits, nanv) ==
    [shape |-> array.shape,
     dtype |-> IF bits > 8 THEN "uint16" ELSE "uint8",
     vals  |-> [i \in 1..Len(array.vals) |->
                   NormalizeSample(array.vals[i], minmax[1], minmax[2], bits, nanv)]]

\* One sample of denormalize, as the numerator of a fraction over 2^bits - 1:
\* q / (2^bits - 1) * (max - min) + min.
DenormalizeNum(q, mn, mx, bits) == q * (mx - mn) + mn * (Pow2(bits) - 1)

is_float(array) == array.dtype \in {"float32", "float64"}

ItemBits(dtype) ==
    CASE dtype = "uint8" -> 8
      [] dtype = "uint16" -> 16
      [] dtype = "float32" -> 32
      [] OTHER -> 64

SeqMax(s) == CHOOSE m \in {s[i] : i \in 1..Len(s)} : \A i \in 1..Len(s) : s[i] <= m
SeqMin(s) == CHOOSE m \in {s[i] : i \in 1..Len(s)} : \A i \in 1..Len(s) : m <= s[i]

\* DRWrapper.fit_transform: the reduction is fitted by an external library on
\* the (pixels x channels) matrix and returns k channels per pixel as floats.
\* The library refuses k > min(samples, features).  The projection on the
\* first k channels stands for the fitted linear map.
FitTransformFails(array, k) == k > Min(NPix(array.shape), array.shape[4])

FitTransform(array, k) ==
    LET C == array.shape[4]
    IN  [shape |-> <<array.shape[1], array.shape[2], array.shape[3], k>>,
         dtype |-> "float64",
         vals  |-> [i \in 1..(NPix(array.shape) * k) |->
                       array.vals[((i - 1) \div k) * C + ((i - 1) % k) + 1]]]

-----------------------------------------------------------------------------
(* The codec engine (ffmpeg / ffprobe), external to the repository.  It is  *)
(* fed packed rgb24 frames, stores them, and emits them in the pixel       *)
(* format it is asked for.  For ffv1 it is an exact converter.             *)

PixFmts == {"gbrp", "bgr0", "rgb24", "yuv444p"}
NoneStr == "None"

\* The pixel formats the engine may settle on for a codec, whatever was
\* requested of it.
EngineFormats(vcodec) ==
    IF vcodec = "ffv1" THEN {"gbrp", "bgr0", "yuv444p"} ELSE {"rgb24", "yuv444p"}

\* The raw frame stream the engine emits for a stored container in pix_fmt.
\* gbrp is planar, one G, one B and one R plane per frame; bgr0 is packed,
\* B, G, R and a fourth byte (pad) per pixel; rgb24 is packed R, G, B.
EngineRaw(file, pix_fmt, pad) ==
    LET n == file.width * file.height
        px == file.pixels
    IN  IF pix_fmt = "gbrp"
        THEN [i \in 1..Len(px) |->
                LET f == (i - 1) \div (3 * n)
                    r == (i - 1) % (3 * n)
                    plane == r \div n
                    p == r % n
                IN  px[(f * n + p) * 3 + ((plane + 1) % 3) + 1]]
        ELSE IF pix_fmt = "bgr0"
        THEN [i \in 1..((Len(px) \div 3) * 4) |->
                LET p == (i - 1) \div 4
                    k == (i - 1) % 4
                IN  IF k = 3 THEN pad ELSE px[p * 3 + (2 - k) + 1]]
        ELSE px

-----------------------------------------------------------------------------
(* ffmpeg_wrappers.py                                                      *)

Result(err, array) == [err |-> err, array |-> array]
NoArray == [shape |-> <<0, 0, 0, 0>>, dtype |-> "uint8", vals |-> <<>>]

\* _ffmpeg_write.  fmt is the pixel format the engine settles on.  The
\* result tells whether the container was (over)written, the file, the
\* returned output_pix_fmt (the requested one) and the error raised.
FfmpegWrite(array, width, height, params, fmt) ==
    LET vcodec == params.cv
        output_pix_fmt == IF vcodec = "ffv1" THEN "gbrp" ELSE "rgb24"
        file == [exists |-> TRUE, vcodec |-> vcodec, pix_fmt |-> fmt,
                 width |-> width, height |-> height, pixels |-> array.vals]
    IN  IF array.dtype # "uint8" \/ array.shape[4] # 3
        THEN [err |-> "AssertionError", wrote |-> FALSE, file |-> NoFile,
              output_pix_fmt |-> output_pix_fmt]
        ELSE IF vcodec = "ffv1" /\ fmt \notin {"gbrp", "bgr0"}
        THEN [err |-> "RuntimeError", wrote |-> TRUE, file |-> file,
              output_pix_fmt |-> output_pix_fmt]
        ELSE [err |-> "none", wrote |-> TRUE, file |-> file,
              output_pix_fmt |-> output_pix_fmt]

\* numpy reshape of a flat buffer: fails unless the sizes agree.
Reshape(out, shape) ==
    IF Len(out) = Prod(shape)
    THEN Result("none", [shape |-> shape, dtype |-> "uint8", vals |-> out])
    ELSE Result("ValueError", NoArray)

\* array[..., ::-1] on a (T,H,W,3) array.
ReverseChannels(vals) ==
    [i \in 1..Len(vals) |-> vals[((i - 1) \div 3) * 3 + (2 - ((i - 1) % 3)) + 1]]

\* The bgr0 branch for a tightly packed buffer of T*H*W*4 bytes:
\* reshape to (T,H,W,4), keep the first three channels, reverse them.
Bgr0TightKeepOrder(out, T, H, W) ==
    [shape |-> <<T, H, W, 3>>, dtype |-> "uint8",
     vals  |-> [i \in 1..(T * H * W * 3) |-> out[((i - 1) \div 3) * 4 + ((i - 1) % 3) + 1]]]

Bgr0Tight(out, T, H, W) ==
    [shape |-> <<T, H, W, 3>>, dtype |-> "uint8",
     vals  |-> [i \in 1..(T * H * W * 3) |->
                   out[((i - 1) \div 3) * 4 + (2 - ((i - 1) % 3)) + 1]]]

RowStride(width) == ((width * 4 + 15) \div 16) * 16

\* The bgr0 branch for rows aligned to 16 bytes: the first width*4 bytes of
\* each row are pixels, handled as in the tight case.
Bgr0Strided(out, T, H, W) ==
    [shape |-> <<T, H, W, 3>>, dtype |-> "uint8",
     vals  |-> [i \in 1..(T * H * W * 3) |->
                   LET p == (i - 1) \div 3
                       row == p \div W
                       x == p % W
                   IN  out[row * RowStride(W) + x * 4 + (2 - ((i - 1) % 3)) + 1]]]

\* vcodec as _ffmpeg_read resolves it from its argument and the path.
ResolveVcodec(vcodec, ext) ==
    IF vcodec = NoneStr /\ ext = ".mkv" THEN "ffv1" ELSE vcodec

\* The pixel format _ffmpeg_read asks the engine to emit.
ReadPixFmt(vc, actual, input_pix_fmt) ==
    IF vc = "ffv1" /\ actual \in {"gbrp", "bgr0"} THEN actual ELSE input_pix_fmt

\* _ffmpeg_read, given the resolved codec, the probed format and the raw
\* buffer the engine emitted for ReadPixFmt.
FfmpegRead(width, height, num_frames, vc, actual, out) ==
    LET n_pixels == num_frames * height * width
        shape3 == <<num_frames, height, width, 3>>
    IN  IF vc = "ffv1" /\ actual = "bgr0"
        THEN IF Len(out) = n_pixels * 4
             THEN Result("none", Bgr0Tight(out, num_frames, height, width))
             ELSE IF Len(out) = num_frames * height * RowStride(width)
             THEN Result("none", Bgr0Strided(out, num_frames, height, width))
             ELSE IF Len(out) = n_pixels * 3
             THEN Result("none", [shape |-> shape3, dtype |-> "uint8",
                                  vals |-> ReverseChannels(out)])
             ELSE Result("ValueError", NoArray)
        ELSE Reshape(out, shape3)


-----------------------------------------------------------------------------
(* metadata.py (not among the source files): the manifest ledger, as the   *)
(* specification describes it.  save writes <name>.json; load returns the  *)
(* same mapping, or fails with MissingManifestError when the file is       *)
(* absent.                                                                 *)

save_metadata(metadata) == [metadata EXCEPT !.exists = TRUE]

load_metadata(file) ==
    IF file.exists
    THEN [err |-> "none", metadata |-> file]
    ELSE [err |-> "MissingManifestError", metadata |-> NoFile]

-----------------------------------------------------------------------------
(* parquet2video.py                                                        *)

DefaultParams == [cv |-> "libx265"]

\* The rule tuple unpacked by its length; a missing field keeps its default.
Unpack(config) ==
    LET n == Len(config)
    IN  [ok           |-> n \in 3..6,
         columns      |-> IF n >= 1 THEN config[1] ELSE <<>>,
         shape        |-> IF n >= 2 THEN config[2] ELSE <<>>,
         n_components |-> IF n \in 3..6 THEN config[3] ELSE 0,
         params       |-> IF n \in 4..6 THEN config[4] ELSE DefaultParams,
         bits         |-> IF n \in 5..6 THEN config[5] ELSE 8,
         value_range  |-> IF n = 6 THEN config[6] ELSE None]

\* The source table: rows x columns cells, cell (t, j) holding
\* base + t * ncols + j (0-based), of one dtype.
SourceValues(table, columns) ==
    [i \in 1..(table.rows * Len(columns)) |-> table.base + i - 1]

\* Zero channels appended up to 3 channels.
PadChannels(array) ==
    LET C == array.shape[4]
    IN  IF C < 3
        THEN [shape |-> <<array.shape[1], array.shape[2], array.shape[3], 3>>,
              dtype |-> array.dtype,
              vals  |-> [i \in 1..(NPix(array.shape) * 3) |->
                           IF (i - 1) % 3 < C
                           THEN array.vals[((i - 1) \div 3) * C + ((i - 1) % 3) + 1]
                           ELSE 0]]
        ELSE array

PrepFail(err) ==
    [err |-> err, array |-> NoArray, normalized |-> FALSE, value_range |-> None,
     pca_params |-> None, normCalled |-> FALSE]

\* Lines 77-89: decide on quantization, quantize, pad to 3 channels.
Quantize(u, array, pca_params, nanv) ==
    LET is_int_but_does_not_fit ==
            /\ ItemBits(array.dtype) > u.bits
            /\ SeqMax(array.vals) > Pow2(u.bits) - 1
        normalized == is_float(array) \/ is_int_but_does_not_fit
        value_range ==
            IF normalized /\ u.value_range = None
            THEN <<SeqMin(array.vals), SeqMax(array.vals)>>
            ELSE u.value_range
    IN  [err |-> "none",
         array |-> PadChannels(IF normalized
                               THEN normalize(array, value_range, u.bits, nanv)
                               ELSE array),
         normalized |-> normalized, value_range |-> value_range,
         pca_params |-> pca_params, normCalled |-> normalized]

\* Lines 69-76: the optional reduction.
Reduce(u, array, nanv) ==
    IF u.n_components > 0
    THEN IF FitTransformFails(array, u.n_components)
         THEN PrepFail("ValueError")
         ELSE Quantize(u, FitTransform(array, u.n_components), <<u.n_components>>, nanv)
    ELSE Quantize(u, array, None, nanv)

\* Lines 47-53: the job body up to channel padding: extract the columns,
\* reshape, then reduce, quantize and pad.
Prepare(u, table, nanv) ==
    IF table.rows * Len(u.columns) # Prod(u.shape)
    THEN PrepFail("ValueError")
    ELSE Reduce(u, [shape |-> u.shape, dtype |-> table.dtype,
                    vals |-> SourceValues(table, u.columns)], nanv)

ExtOf(params) == IF params.cv = "libx264" THEN ".mp4" ELSE ".mkv"

Outcome(err, caught, p, wrote, ext, file, saved, metadata) ==
    [err |-> err, caught |-> caught, wrote |-> wrote, ext |-> ext, file |-> file,
     saved |-> saved, metadata |-> metadata,
     normCalled |-> p.normCalled, normRange |-> p.value_range]

\* What one loop iteration leaves in the log of the batch: whether the rule
\* supplied a value range, the exception, and for a container that was
\* written the codec and the pixel format requested of the engine and probed
\* from the file.
TraceEntry(name, o, job) ==
    [name |-> name, err |-> o.err, caught |-> o.caught,
     rangeGiven |-> Unpack(job.config).value_range # None,
     normCalled |-> o.normCalled, normRange |-> o.normRange,
     wrote |-> o.wrote, saved |-> o.saved,
     vcodec |-> IF o.wrote THEN o.file.vcodec ELSE "",
     requested |-> IF o.wrote
                   THEN (IF o.file.vcodec = "ffv1" THEN "gbrp" ELSE "rgb24")
                   ELSE "",
     actual |-> IF o.wrote THEN o.file.pix_fmt ELSE ""]

\* Lines 110-124: the manifest entry of a job.
Metadata(name, u, p, ext, output_pix_fmt, actual_pix_fmt) ==
    [exists |-> TRUE,
     shape |-> p.array.shape,
     minmax |-> p.value_range,
     columns |-> u.columns,
     name |-> name,
     bits |-> u.bits,
     normalized |-> p.normalized,
     pca_params |-> p.pca_params,
     ext |-> ext,
     output_pix_fmt |-> output_pix_fmt,
     actual_pix_fmt |-> actual_pix_fmt]

\* Lines 95-124: after _ffmpeg_write returned w, the format is probed again
\* (actual_pix_fmt), checked, and the manifest is built and saved.
AfterWrite(name, u, p, ext, w, actual_pix_fmt) ==
    IF w.err # "none"
    THEN Outcome(w.err, TRUE, p, w.wrote, ext, w.file, FALSE, NoFile)
    ELSE IF u.params.cv = "ffv1" /\ actual_pix_fmt # "gbrp"
    THEN Outcome("RuntimeError", TRUE, p, TRUE, ext, w.file, FALSE, NoFile)
    ELSE IF p.value_range = None
    THEN Outcome("TypeError", TRUE, p, TRUE, ext, w.file, FALSE, NoFile)
    ELSE Outcome("none", TRUE, p, TRUE, ext, w.file, TRUE,
                 save_metadata(Metadata(name, u, p, ext, w.output_pix_fmt,
                                        actual_pix_fmt)))

\* Lines 46-94: the try block up to the call of _ffmpeg_write.
TryBlock(name, u, p, fmt) ==
    IF p.err # "none"
    THEN Outcome(p.err, TRUE, p, FALSE, ExtOf(u.params), NoFile, FALSE, NoFile)
    ELSE AfterWrite(name, u, p, ExtOf(u.params),
                    FfmpegWrite(p.array, p.array.shape[3], p.array.shape[2], u.params, fmt),
                    fmt)

\* Lines 29-45: the rule tuple is unpacked outside the try block.
Unpacked(name, u, table, fmt, nanv) ==
    IF ~u.ok
    THEN Outcome("AssertionError", FALSE, PrepFail("none"), FALSE, ".mkv", NoFile,
                 FALSE, NoFile)
    ELSE TryBlock(name, u, Prepare(u, table, nanv), fmt)

\* One iteration of the loop over conversion_rules: what it raises, whether
\* the raise happens inside the try block, and what it leaves on disk.
EncodeOutcome(name, config, table, fmt, nanv) ==
    Unpacked(name, Unpack(config), table, fmt, nanv)

-----------------------------------------------------------------------------
(* video2parquet.py                                                        *)

\* The signature of _ffmpeg_read: its parameters in order, the first four
\* without a default.
FfmpegReadParams ==
    <<"input_path", "width", "height", "num_frames", "input_pix_fmt", "vcodec">>
FfmpegReadRequired == 4

\* Python's binding of a call with npos positional arguments and the keyword
\* arguments kw to that signature.
BindFfmpegRead(npos, kw) ==
    LET names == {FfmpegReadParams[i] : i \in 1..Len(FfmpegReadParams)}
        bound == {FfmpegReadParams[i] : i \in 1..Min(npos, Len(FfmpegReadParams))} \cup kw
    IN  IF npos > Len(FfmpegReadParams) \/ ~(kw \subseteq names)
        THEN "TypeError"
        ELSE IF \E i \in 1..FfmpegReadRequired : FfmpegReadParams[i] \notin bound
        THEN "TypeError"
        ELSE "none"

\* array[:num_frames, :height, :width, :channels]
CropToShape(array, shape) ==
    LET s == [d \in 1..4 |-> Min(array.shape[d], shape[d])]
        a == array.shape
    IN  [shape |-> <<s[1], s[2], s[3], s[4]>>,
         dtype |-> array.dtype,
         vals  |-> [i \in 1..(s[1] * s[2] * s[3] * s[4]) |->
                      LET c == (i - 1) % s[4]
                          w == ((i - 1) \div s[4]) % s[3]
                          h == ((i - 1) \div (s[4] * s[3])) % s[2]
                          t == (i - 1) \div (s[4] * s[3] * s[2])
                      IN  array.vals[((t * a[2] + h) * a[3] + w) * a[4] + c + 1]]]

\* flat = array.reshape(num_frames, -1), then padded with zeros or truncated
\* to ncols columns: the rows of the reconstructed table.
FitColumns(array, num_frames, ncols) ==
    LET width == Len(array.vals) \div num_frames
    IN  [t \in 1..num_frames |->
            [j \in 1..ncols |->
                IF j <= width THEN array.vals[(t - 1) * width + j] ELSE 0]]

\* Lines 50-63: the table video2parquet builds from a decoded array.
DecodeTail(array, metadata) ==
    LET cropped == CropToShape(array, metadata.shape)
    IN  [exists |-> TRUE, columns |-> metadata.columns,
         rows |-> FitColumns(cropped, metadata.shape[1], Len(metadata.columns))]

\* dict.get: the value under the key, or the default when the key is absent.
MetadataGet(metadata, key, default) ==
    IF key \in DOMAIN metadata THEN metadata[key] ELSE default

\* The manifest keys video2parquet reads: lines 17-28, 40 and 43.
ManifestKeysRead ==
    {"ext", "shape", "minmax", "columns", "CODEC", "OUT_PIX_FMT", "normalized",
     "pca_params"}

\* Lines 24-28: the codec and the pixel format the decoder takes the container
\* to have.
DecoderVcodec(metadata) == MetadataGet(metadata, "CODEC", "ffv1")

DecoderInputPixFmt(metadata) ==
    IF DecoderVcodec(metadata) = "ffv1"
    THEN MetadataGet(metadata, "OUT_PIX_FMT", "gbrp")
    ELSE "rgb24"

DecodeOutcome(err, probed, wrote, table) ==
    [err |-> err, probed |-> probed, wrote |-> wrote, table |-> table]

\* video2parquet going on to the container read without looking at what
\* load_metadata returned.
Video2ParquetIgnoringLoad(name, metaFile) ==
    DecodeOutcome(BindFfmpegRead(1, {"loglevel"}), FALSE, FALSE, NoFile)

\* One call of video2parquet for the manifest file found under the name:
\* the exception it ends with, whether the container was read, and the
\* table written.  The call of _ffmpeg_read passes the path and a keyword
\* loglevel; were it bound, the returned array would be unpacked into
\* (array, meta_info), which fails on meta_info.get for two frames and on
\* the unpacking otherwise.
Video2ParquetOutcome(name, metaFile) ==
    LET m == load_metadata(metaFile)
    IN  IF m.err # "none"
        THEN DecodeOutcome(m.err, FALSE, FALSE, NoFile)
        ELSE IF BindFfmpegRead(1, {"loglevel"}) # "none"
        THEN DecodeOutcome(BindFfmpegRead(1, {"loglevel"}), FALSE, FALSE, NoFile)
        ELSE IF m.metadata.shape[1] = 2
        THEN DecodeOutcome("AttributeError", TRUE, FALSE, NoFile)
        ELSE DecodeOutcome("ValueError", TRUE, FALSE, NoFile)

-----------------------------------------------------------------------------
(* Inputs.                                                                 *)

Shapes == {<<t, h, w, c>> : t \in 1..MaxT, h \in 1..MaxH, w \in 1..MaxW, c \in 1..3}

Sources ==
    {[dtype |-> "uint8", base |-> 0],
     [dtype |-> "float32", base |-> 0],
     [dtype |-> "int64", base |-> 250]}

RangeKinds == {"none", "data", "inverted"}

RangeOf(kind, src, shape) ==
    IF kind = "none" THEN None
    ELSE IF kind = "data" THEN <<src.base, src.base + Prod(shape) - 1>>
    ELSE <<src.base + Prod(shape) - 1, src.base>>

FullConfig(shape, k, codec, bits, range) ==
    <<[j \in 1..(shape[2] * shape[3] * shape[4]) |-> j], shape, k, [cv |-> codec],
      bits, range>>

JobsOf(shapes, sources, codecs, bitss) ==
    {[config |-> SubSeq(FullConfig(shape, k, codec, bits, RangeOf(rk, src, shape)), 1, n),
      table  |-> [rows |-> shape[1], dtype |-> src.dtype, base |-> src.base]] :
        shape \in shapes, src \in sources, k \in NComponents, codec \in codecs,
        bits \in bitss, rk \in RangeKinds, n \in 2..6}

\* Every job over the bounded shapes, sources, codecs and bit depths.
Jobs == JobsOf(Shapes, Sources, Codecs, BitDepths)

\* The jobs of a batch of several arrays: one RGB shape, the lossless codec,
\* 8 bits; every rule length, source and value range.
BatchJobs == JobsOf({<<MaxT, MaxH, MaxW, 3>>}, Sources, {"ffv1"}, {8})

BatchNames ==
    {s \in UNION {[1..k -> Names] : k \in 1..Cardinality(Names)} :
        \A i, j \in 1..Len(s) : i # j => s[i] # s[j]}

NaNCasts(bits) == {0, Pow2(bits) - 1}

-----------------------------------------------------------------------------
(* The pipeline as a state machine.                                        *)

IdleBatch ==
    [status |-> "idle", policy |-> "raise", names |-> <<>>, next |-> 1,
     results |-> {}, trace |-> <<>>, error |-> "none"]

NoDecode ==
    [exists |-> FALSE, name |-> "", policy |-> "", err |-> "none", raised |-> FALSE,
     hadManifest |-> FALSE, probed |-> FALSE, wrote |-> FALSE,
     vcodec |-> "", input_pix_fmt |-> ""]

Init ==
    /\ container = [n \in Names |-> [e \in Exts |-> NoFile]]
    /\ manifest = [n \in Names |-> NoFile]
    /\ origin = [n \in Names |-> NoJob]
    /\ recon = [n \in Names |-> NoFile]
    /\ dataset = FALSE
    /\ batch = IdleBatch
    /\ dec = NoDecode
    /\ call = NoCall

\* parquet2video is called on a fresh output directory: lines 24-27.
StartBatch(names, policy) ==
    /\ batch.status = "idle"
    /\ batch' = [IdleBatch EXCEPT !.status = "running", !.policy = policy,
                                  !.names = names]
    /\ UNCHANGED <<container, manifest, origin, recon, dataset, dec, call>>

\* The effect of one loop iteration that ended as o on the directory and on
\* the batch: lines 125-145.
ApplyOutcome(name, o, job, aborts) ==
    /\ container' = IF o.wrote
                    THEN [container EXCEPT ![name][o.ext] = o.file]
                    ELSE container
    /\ manifest' = IF o.saved
                   THEN [manifest EXCEPT ![name] = o.metadata]
                   ELSE manifest
    /\ origin' = IF o.saved THEN [origin EXCEPT ![name] = job] ELSE origin
    /\ batch' = [batch EXCEPT
                   !.trace = Append(@, TraceEntry(name, o, job)),
                   !.results = IF o.err = "none" THEN @ \cup {name} ELSE @,
                   !.next = IF aborts THEN @ ELSE @ + 1,
                   !.status = IF aborts THEN "aborted" ELSE @,
                   !.error = IF aborts THEN o.err ELSE @]

\* An exception leaves the loop when it is raised outside the try block or
\* the policy is 'raise'.
Aborts(o, policy) == o.err # "none" /\ (~o.caught \/ policy = "raise")

EncodeStep(name, o, job) == ApplyOutcome(name, o, job, Aborts(o, batch.policy))

\* One iteration of the loop over conversion_rules: lines 29-145.
EncodeJob(config, table, fmt, nanv) ==
    /\ batch.status = "running"
    /\ batch.next <= Len(batch.names)
    /\ EncodeStep(batch.names[batch.next],
                  EncodeOutcome(batch.names[batch.next], config, table, fmt, nanv),
                  [exists |-> TRUE, config |-> config, table |-> table])
    /\ UNCHANGED <<recon, dataset, dec, call>>

\* After the loop: the table is saved and the results returned: lines 146-149.
FinishBatch ==
    /\ batch.status = "running"
    /\ batch.next > Len(batch.names)
    /\ dataset' = TRUE
    /\ batch' = [batch EXCEPT !.status = "returned"]
    /\ UNCHANGED <<container, manifest, origin, recon, dec, call>>

\* One call of video2parquet, between or after encodes.
Video2Parquet(name, policy) ==
    /\ batch.status # "running"
    /\ LET o == Video2ParquetOutcome(name, manifest[name])
       IN  /\ dec' = [exists |-> TRUE, name |-> name, policy |-> policy,
                      err |-> o.err,
                      raised |-> (o.err # "none" /\ policy = "raise"),
                      hadManifest |-> manifest[name].exists, probed |-> o.probed,
                      wrote |-> o.wrote,
                      vcodec |-> IF manifest[name].exists
                                 THEN DecoderVcodec(manifest[name]) ELSE "",
                      input_pix_fmt |-> IF manifest[name].exists
                                        THEN DecoderInputPixFmt(manifest[name]) ELSE ""]
           /\ recon' = IF o.wrote THEN [recon EXCEPT ![name] = o.table] ELSE recon
    /\ UNCHANGED <<container, manifest, origin, dataset, batch, call>>

EncodeAny(jobs) ==
    /\ batch.status = "running"
    /\ \E job \in jobs :
          \E fmt \in EngineFormats(Unpack(job.config).params.cv),
             nanv \in NaNCasts(Unpack(job.config).bits) :
               EncodeJob(job.config, job.table, fmt, nanv)

\* A batch over several named arrays, then decodes.
Next ==
    \/ \E names \in BatchNames, policy \in Policies : StartBatch(names, policy)
    \/ EncodeAny(BatchJobs)
    \/ FinishBatch
    \/ \E name \in Names, policy \in Policies : Video2Parquet(name, policy)

Spec == Init /\ [][Next]_vars

\* One job of any kind for one array, then decodes.
NextJob ==
    \/ \E policy \in Policies : StartBatch(<<"arr1">>, policy)
    \/ EncodeAny(Jobs)
    \/ FinishBatch
    \/ \E policy \in Policies : Video2Parquet("arr1", policy)

SpecJob == Init /\ [][NextJob]_vars

-----------------------------------------------------------------------------
(* parquet2video called again and again on the same output directory.      *)

\* parquet2video is called on the directory an earlier call left, after that
\* call returned or was left by an exception: lines 24-27 (mkdir exist_ok).
RerunBatch(names, policy) ==
    /\ batch.status \in {"returned", "aborted"}
    /\ batch' = [IdleBatch EXCEPT !.status = "running", !.policy = policy,
                                  !.names = names]
    /\ UNCHANGED <<container, manifest, origin, recon, dataset, dec, call>>

\* The jobs of the reruns: one RGB pixel, no reduction, 8 bits, both codecs,
\* every source, with and without a value range.
RerunJobs ==
    {j \in JobsOf({<<1, 1, 1, 3>>}, Sources, Codecs, {8}) :
        Len(j.config) >= 5 /\ j.config[3] = 0}

NextRerun ==
    \/ \E policy \in Policies : StartBatch(<<"arr1">>, policy)
    \/ \E policy \in Policies : RerunBatch(<<"arr1">>, policy)
    \/ EncodeAny(RerunJobs)
    \/ FinishBatch

SpecRerun == Init /\ [][NextRerun]_vars

-----------------------------------------------------------------------------
(* The wrappers called directly on bounded tensors and raw buffers.        *)

PixelShapes == {<<t, h, w>> \in (1..MaxPix) \X (1..MaxPix) \X (1..MaxPix) : t * h * w <= MaxPix}

\* The uint8 tensors with c channels.
Tensors(c) ==
    UNION {{[shape |-> <<s[1], s[2], s[3], c>>, dtype |-> "uint8", vals |-> v] :
               v \in [1..(s[1] * s[2] * s[3] * c) -> ByteVals]} : s \in PixelShapes}

\* _ffmpeg_write of x with codec ffv1 to an .mkv path, the engine settling on
\* fmt, then _ffmpeg_read of that container with the frame geometry of x.
WriteThenRead(x, fmt, pad, vcodec) ==
    /\ call.op = "none"
    /\ LET w == FfmpegWrite(x, x.shape[3], x.shape[2], [cv |-> "ffv1"], fmt)
           vc == ResolveVcodec(vcodec, ".mkv")
       IN  call' = [op |-> "roundtrip", x |-> x, fmt |-> fmt,
                    res |-> IF w.err # "none"
                            THEN Result(w.err, NoArray)
                            ELSE FfmpegRead(x.shape[3], x.shape[2], x.shape[1], vc, fmt,
                                            EngineRaw(w.file, ReadPixFmt(vc, fmt, "rgb24"),
                                                      pad))]
    /\ UNCHANGED <<container, manifest, origin, recon, dataset, batch, dec>>

Layouts == {"tight", "strided", "packed", "short"}

\* A raw buffer for T*H*W pixels: the 4-byte groups of content laid out
\* tightly, in rows aligned to 16 bytes, as 3 bytes per pixel, or one byte
\* short.
Buffer(content, layout, T, H, W) ==
    IF layout = "tight" THEN content
    ELSE IF layout = "strided"
    THEN [i \in 1..(T * H * RowStride(W)) |->
            LET row == (i - 1) \div RowStride(W)
                off == (i - 1) % RowStride(W)
            IN  IF off < W * 4 THEN content[row * W * 4 + off + 1] ELSE 0]
    ELSE IF layout = "packed" THEN SubSeq(content, 1, T * H * W * 3)
    ELSE SubSeq(content, 1, T * H * W * 4 - 1)

ReadArgs == {<<"ffv1", ".mkv">>, <<NoneStr, ".mkv">>, <<NoneStr, ".mp4">>, <<"libx264", ".mp4">>}

\* _ffmpeg_read of a container for which the engine probes actual and emits
\* the raw buffer out.
ReadRaw(vcodec, ext, actual, T, H, W, out) ==
    /\ call.op = "none"
    /\ call' = [op |-> "read", vc |-> ResolveVcodec(vcodec, ext), actual |-> actual,
                T |-> T, H |-> H, W |-> W, out |-> out,
                res |-> FfmpegRead(W, H, T, ResolveVcodec(vcodec, ext), actual, out)]
    /\ UNCHANGED <<container, manifest, origin, recon, dataset, batch, dec>>

\* Round trips of 3-channel tensors through the container.
RoundTrips ==
    /\ call.op = "none"
    /\ \E x \in Tensors(3), fmt \in EngineFormats("ffv1"), pad \in ByteVals,
          vcodec \in {"ffv1", NoneStr} : WriteThenRead(x, fmt, pad, vcodec)

\* Round trips of tensors with fewer than 3 channels.
NarrowRoundTrips ==
    /\ call.op = "none"
    /\ \E c \in 1..2 : \E x \in Tensors(c), vcodec \in {"ffv1", NoneStr} :
          WriteThenRead(x, "gbrp", 0, vcodec)

\* Reads of raw buffers of every layout.
RawReads ==
    /\ call.op = "none"
    /\ \E a \in ReadArgs, actual \in {"gbrp", "bgr0", "rgb24"}, s \in PixelShapes,
          layout \in Layouts :
          \E content \in [1..(s[1] * s[2] * s[3] * 4) -> ByteVals] :
             ReadRaw(a[1], a[2], actual, s[1], s[2], s[3],
                     Buffer(content, layout, s[1], s[2], s[3]))

NextCodec == RoundTrips \/ NarrowRoundTrips \/ RawReads

SpecCodec == Init /\ [][NextCodec]_vars

-----------------------------------------------------------------------------
(* The quantizer called directly on bounded samples and ranges.            *)

Vals == (0 - MaxVal)..MaxVal

\* normalize of one sample, then denormalize of the result with the same
\* range and bit depth.  num is the denormalized value times 2^bits - 1.
NormalizeDenormalize(x, mn, mx, bits, nanv) ==
    /\ call.op = "none"
    /\ call' = [op |-> "quant", x |-> x, mn |-> mn, mx |-> mx, bits |-> bits,
                err |-> "none",
                q |-> NormalizeSample(x, mn, mx, bits, nanv),
                num |-> DenormalizeNum(NormalizeSample(x, mn, mx, bits, nanv), mn, mx, bits)]
    /\ UNCHANGED <<container, manifest, origin, recon, dataset, batch, dec>>

NextQuant ==
    /\ call.op = "none"
    /\ \E x \in Vals, mn \in Vals, mx \in Vals, bits \in BitDepths :
          \E nanv \in NaNCasts(bits) : NormalizeDenormalize(x, mn, mx, bits, nanv)

SpecQuant == Init /\ [][NextQuant]_vars


-----------------------------------------------------------------------------
(* Claims.                                                                 *)

\* The array of shape <<T,H,W,3>> a container holds, as it was fed to the
\* engine.
FedArray(file, shape) == [shape |-> shape, dtype |-> "uint8", vals |-> file.pixels]

\* The cell (t, j) of the source table of a job (1-based).
SourceCell(job, t, j) == job.table.base + (t - 1) * Len(job.config[1]) + j - 1

\* C1: encoding a uint8 tensor of at most 3 channels with ffv1 / gbrp through
\* _ffmpeg_write and decoding it through _ffmpeg_read returns the tensor,
\* element for element (SpecCodec).
C1_RoundTripExact ==
    (call.op = "roundtrip" /\ call.fmt = "gbrp")
        => /\ call.res.err = "none"
           /\ call.res.array.shape = call.x.shape
           /\ call.res.array.vals = call.x.vals

\* The certified lossless configuration of C2: ffv1 probed as gbrp, no
\* reduction, 8 bits, a value range supplied with min < max, 3 channels.
Certified(job, meta) ==
    /\ Len(job.config) = 6
    /\ job.config[2][4] = 3
    /\ job.config[3] = 0
    /\ job.config[4].cv = "ffv1"
    /\ job.config[5] = 8
    /\ job.config[6] # None
    /\ job.config[6][1] < job.config[6][2]
    /\ meta.actual_pix_fmt = "gbrp"

\* C2: after parquet2video in the certified lossless configuration,
\* video2parquet for the same name completes without error and writes a
\* table with as many rows as the source, the same column names in the same
\* order, and every value within 1 unit of the source value (SpecJob).
C2_EndToEnd ==
    \A n \in Names :
        (/\ dec.exists /\ dec.name = n /\ dec.hadManifest
         /\ origin[n].exists
         /\ Certified(origin[n], manifest[n]))
        => /\ dec.err = "none"
           /\ recon[n].exists
           /\ Len(recon[n].rows) = origin[n].table.rows
           /\ recon[n].columns = origin[n].config[1]
           /\ \A t \in 1..Len(recon[n].rows) : \A j \in 1..Len(recon[n].columns) :
                 Abs(recon[n].rows[t][j] - SourceCell(origin[n], t, j)) <= 1

C4_WithinOneStep ==
    (call.op = "quant" /\ call.mn < call.mx /\ call.mn <= call.x /\ call.x <= call.mx)
        => Abs(call.num - call.x * (Pow2(call.bits) - 1)) <= call.mx - call.mn

\* A sample strictly inside a range that 2^bits - 1 does not divide evenly,
\* quantized to 16 bits with a truncated quotient.
C4_Witness ==
    /\ call.op = "quant"
    /\ call.bits = 16
    /\ call.mn < call.x /\ call.x < call.mx
    /\ call.num # call.x * (Pow2(call.bits) - 1)

\* C5: for a source with fewer than 3 channels (no reduction) the manifest
\* records the source's channel count, and the decoded, cropped and flattened
\* array gives every manifest column the value its cell had before the zero
\* channels were appended (SpecJob).
C5_PackingInvertible ==
    \A n \in Names :
        (/\ manifest[n].exists /\ origin[n].exists
         /\ origin[n].config[3] = 0
         /\ origin[n].config[2][4] < 3)
        => LET C == origin[n].config[2][4]
               file == container[n][manifest[n].ext]
               table == DecodeTail(FedArray(file, manifest[n].shape), manifest[n])
           IN  /\ manifest[n].shape[4] = C
               /\ \A t \in 1..Len(table.rows) : \A j \in 1..Len(table.columns) :
                     table.rows[t][j] =
                        file.pixels[(((t - 1) * Len(table.columns) + (j - 1)) \div C) * 3
                                    + ((j - 1) % C) + 1]

\* C6: when the manifest of the requested name is absent, video2parquet
\* ends with MissingManifestError before any container read and writes no
\* reconstructed table, under either exceptions policy (Spec).
C6_MissingManifest ==
    (dec.exists /\ ~dec.hadManifest)
        => /\ dec.err = "MissingManifestError"
           /\ dec.raised = (dec.policy = "raise")
           /\ ~dec.probed
           /\ ~dec.wrote
           /\ ~recon[dec.name].exists

\* A decode under the skip policy of a name whose job failed after its
\* container was written, so that the container exists and no manifest does.
C6_Witness ==
    /\ dec.exists /\ ~dec.hadManifest /\ dec.policy = "skip"
    /\ dec.err = "MissingManifestError"
    /\ \E e \in Exts : container[dec.name][e].exists

C8_InvalidRange ==
    \A i \in 1..Len(batch.trace) :
        LET e == batch.trace[i]
        IN  (e.normCalled /\ e.normRange[2] < e.normRange[1])
               => (e.err = "InvalidRangeError" /\ ~e.wrote /\ ~e.saved)

\* C9: a job whose container is probed with a format that is neither the
\* requested one nor bgr0 fails on the pixel format (the code's RuntimeError
\* standing for UnsupportedPixelFormatError) and writes no manifest; a job
\* whose probed format is the requested one or bgr0 does not fail on the
\* pixel format (SpecJob; stated of the jobs that fail in no other way).
C9_PixelFormatGate ==
    \A i \in 1..Len(batch.trace) :
        LET e == batch.trace[i]
        IN  (e.wrote /\ e.err \in {"none", "RuntimeError"}) =>
               IF e.actual \in {e.requested, "bgr0"}
               THEN e.err # "RuntimeError"
               ELSE e.err = "RuntimeError" /\ ~e.saved

\* C10: in a batch every failure of a job, a malformed rule tuple included,
\* is caught per job: under the skip policy the batch never aborts, every job
\* is processed in order and the results hold exactly the jobs that
\* succeeded; under 'raise' the batch aborts at the first failing job and no
\* later job is started (Spec).
C10_PerJobIsolation ==
    LET failed == {i \in 1..Len(batch.trace) : batch.trace[i].err # "none"}
    IN  /\ \A i \in 1..Len(batch.trace) : batch.trace[i].name = batch.names[i]
        /\ batch.results =
              {batch.trace[i].name : i \in (1..Len(batch.trace)) \ failed}
        /\ batch.policy = "skip" =>
              /\ batch.status # "aborted"
              /\ batch.status = "returned" => Len(batch.trace) = Len(batch.names)
        /\ batch.policy = "raise" =>
              /\ failed \subseteq {Len(batch.trace)}
              /\ failed # {} => batch.status = "aborted"

\* A manifest with other pixel-format fields (lines 120-121 of parquet2video)
\* and everything else as it is.
WithPixFmtFields(metadata, requested, actual) ==
    [metadata EXCEPT !.output_pix_fmt = requested, !.actual_pix_fmt = actual]

\* C11: a decode of a container whose manifest exists inspects the container
\* at decode time, and ends the same way whatever the pixel-format fields of
\* the manifest say: the unpacking is chosen from the probed format (SpecJob).
C11_ProbedFormatDecides ==
    \A n \in Names :
        (dec.exists /\ dec.name = n /\ dec.hadManifest)
        => /\ dec.probed
           /\ \A req \in PixFmts, act \in PixFmts :
                 Video2ParquetOutcome(n, WithPixFmtFields(manifest[n], req, act))
                    = Video2ParquetOutcome(n, manifest[n])

\* The [min, max] of the source table of a job.
DataRange(job) ==
    <<job.table.base, job.table.base + job.table.rows * Len(job.config[1]) - 1>>

\* C12: a job whose rule supplies no value range, whose container the engine
\* wrote in a format that passes the pixel-format check, completes and saves
\* a manifest holding a value range, which without reduction is the
\* [min, max] of the job's data; whether it quantizes or not (SpecJob).
C12_RangeFromData ==
    \A i \in 1..Len(batch.trace) :
        LET e == batch.trace[i]
        IN  (~e.rangeGiven /\ e.wrote /\ e.err # "RuntimeError")
            => /\ e.err = "none"
               /\ e.saved
               /\ manifest[e.name].exists
               /\ manifest[e.name].minmax # None
               /\ (origin[e.name].config[3] = 0
                     => manifest[e.name].minmax = DataRange(origin[e.name]))

\* C13: for a value range with min = max, normalize returns 0 for every
\* sample, above or below the range, for bit depths 8 and 16; the sample
\* equal to min = max, whose quotient is NaN, may come out as whatever the
\* build's cast makes of NaN (SpecQuant).
C13_ZeroWidthRange ==
    (call.op = "quant" /\ call.mn = call.mx)
        => (call.q = 0 \/ (call.x = call.mn /\ call.q \in NaNCasts(call.bits)))

\* C14: after any sequence of parquet2video runs into one directory, a
\* manifest on disk describes the container on disk under its name and
\* extension (the codec of the job that wrote the manifest, the pixel format
\* that job probed), and a job that wrote the container and then failed has
\* left no manifest naming that container (SpecRerun).
C14_ManifestNotStale ==
    /\ \A n \in Names :
          manifest[n].exists
          => /\ container[n][manifest[n].ext].exists
             /\ container[n][manifest[n].ext].vcodec = Unpack(origin[n].config).params.cv
             /\ container[n][manifest[n].ext].pix_fmt = manifest[n].actual_pix_fmt
    /\ \A i \in 1..Len(batch.trace) :
          LET e == batch.trace[i]
          IN  (e.wrote /\ ~e.saved /\ manifest[e.name].exists)
              => manifest[e.name].ext # ExtOf([cv |-> e.vcodec])

\* C15: every manifest key video2parquet reads is a key of the manifest
\* parquet2video wrote, and the codec the decoder takes a container to have
\* is the codec the encoder wrote it with (SpecJob).
C15_KeysReadAreWritten ==
    \A n \in Names :
        (dec.exists /\ dec.name = n /\ dec.hadManifest)
        => /\ ManifestKeysRead \subseteq DOMAIN manifest[n]
           /\ dec.vcodec = container[n][manifest[n].ext].vcodec

====
